---- MODULE Spec2Model ----
(***************************************************************************)
(* A model of godm: the filter compiler of the query builder (makeWhere,   *)
(* Where, AndWhere, OrWhere), the middleware pipeline (Register, Do), the  *)
(* field defaulting callback (field.Do) and the query executor (One, All,  *)
(* Apply, Distinct), and the parsers of util.go.                           *)
(*                                                                         *)
(* Go strings are modelled as sequences of one-character strings, so that  *)
(* strings.HasSuffix, strings.Replace and strings.Trim are computed the    *)
(* way the library computes them.                                          *)
(***************************************************************************)
EXTENDS Integers, Sequences, FiniteSets, TLC

VARIABLES
    filters,            \* makeWhere: the condition map, as the sequence of entries in the order `range` visits them
    filter,             \* makeWhere: the returned bson.D
    wpc,                \* makeWhere: "input" before the call, "done" after it
    q,                  \* Query: the fields of the query under construction
    hist,               \* Query: the builder calls made so far, each with its argument and the query it found
    middlewareCallback, \* middleware: the registered callback slice
    registered,         \* middleware: the user callbacks passed to Register, in call order
    inp,                \* middleware / executor: the arguments of the last operation
    log,                \* middleware / executor: the events of the last operation, in order
    ret,                \* middleware / executor: the error the last operation returned
    out,                \* field / util: what the last operation left behind or returned besides its error
    procs               \* middleware: the goroutines that call Do, each with the state of its call

vars == <<filters, filter, wpc, q, hist, middlewareCallback, registered, inp, log, ret, out, procs>>

whereVars == <<filters, filter, wpc>>
queryVars == <<q, hist>>
mwVars    == <<middlewareCallback, registered, inp, log, ret, out, procs>>

----------------------------------------------------------------------------
(* Bounds *)

MaxChunks == 2      \* total number of chunks in the keys of one condition map
MaxCalls  == 3      \* builder calls on one query
MaxDocs   == 3      \* elements of a document slice
MaxUser   == 2      \* Register calls
MaxSortChunks == 3  \* chunks in the field handed to ParseSortField or ParseSelectField
MaxProcs  == 2      \* goroutines calling middleware.Do

----------------------------------------------------------------------------
(* Go strings *)

RECURSIVE ReplaceAll(_, _)
RECURSIVE TrimLeft(_, _)
RECURSIVE TrimRight(_, _)

HasSuffix(s, suffix) ==
    /\ Len(s) >= Len(suffix)
    /\ SubSeq(s, Len(s) - Len(suffix) + 1, Len(s)) = suffix

HasPrefix(s, prefix) ==
    /\ Len(s) >= Len(prefix)
    /\ SubSeq(s, 1, Len(prefix)) = prefix

\* strings.Replace(s, old, "", -1) for a non-empty old: every non-overlapping
\* occurrence of old, scanning from the left, is removed.
ReplaceAll(s, old) ==
    IF Len(s) = 0 THEN <<>>
    ELSE IF HasPrefix(s, old) THEN ReplaceAll(SubSeq(s, Len(old) + 1, Len(s)), old)
    ELSE <<Head(s)>> \o ReplaceAll(Tail(s), old)

TrimLeft(s, c) ==
    IF Len(s) > 0 /\ Head(s) = c THEN TrimLeft(Tail(s), c) ELSE s

TrimRight(s, c) ==
    IF Len(s) > 0 /\ s[Len(s)] = c THEN TrimRight(SubSeq(s, 1, Len(s) - 1), c) ELSE s

\* strings.Trim(s, " ")
Trim(s, c) == TrimRight(TrimLeft(s, c), c)

----------------------------------------------------------------------------
(* Operators of package operator, as makeWhere uses them *)

Lt  == "$lt"
Lte == "$lte"
Gt  == "$gt"
Gte == "$gte"
In  == "$in"
Nin == "$nin"
Ne  == "$ne"
Eq  == "$eq"
And == "$and"
Or  == "$or"

\* The key markers makeWhere tests for
sfxLt    == <<" ", "<">>
sfxLte   == <<" ", "<", "=">>
sfxGt    == <<" ", ">">>
sfxGte   == <<" ", ">", "=">>
sfxIn    == <<" ", "i", "n">>
sfxINup  == <<" ", "I", "N">>
sfxNotIn == <<" ", "n", "o", "t", " ", "i", "n">>
sfxNOTIN == <<" ", "N", "O", "T", " ", "I", "N">>
sfxNe    == <<" ", "!", "=">>
sfxNe2   == <<" ", "<", ">">>

----------------------------------------------------------------------------
(* makeWhere *)

\* A bson.E of a filter: a leaf {field, {operator, value}} or a combinator
\* {$and / $or, [left, right]}.
Leaf(f, o, v) == [kind |-> "leaf", field |-> f, op |-> o, value |-> v, children |-> <<>>]
Node(c, l, r) == [kind |-> "node", field |-> <<>>, op |-> c, value |-> 0, children |-> <<l, r>>]

whereOperatorSwapped(field) ==
    IF HasSuffix(field, sfxLt) THEN [op |-> Lte, keys |-> <<sfxLt>>]
    ELSE IF HasSuffix(field, sfxLte) THEN [op |-> Lt, keys |-> <<sfxLte>>]
    ELSE IF HasSuffix(field, sfxGt) THEN [op |-> Gt, keys |-> <<sfxGt>>]
    ELSE IF HasSuffix(field, sfxGte) THEN [op |-> Gte, keys |-> <<sfxGte>>]
    ELSE IF HasSuffix(field, sfxIn) \/ HasSuffix(field, sfxINup) THEN [op |-> In, keys |-> <<sfxIn, sfxINup>>]
    ELSE IF HasSuffix(field, sfxNotIn) \/ HasSuffix(field, sfxNOTIN) THEN [op |-> Nin, keys |-> <<sfxNotIn, sfxNOTIN>>]
    ELSE IF HasSuffix(field, sfxNe) \/ HasSuffix(field, sfxNe2) THEN [op |-> Ne, keys |-> <<sfxNe, sfxNe2>>]
    ELSE [op |-> Eq, keys |-> <<>>]

\* The if / else-if chain of makeWhere: the operator of a key and the marker
\* texts to remove from it.
whereOperator(field) ==
    IF HasSuffix(field, sfxLt) THEN [op |-> Lt, keys |-> <<sfxLt>>]
    ELSE IF HasSuffix(field, sfxLte) THEN [op |-> Lte, keys |-> <<sfxLte>>]
    ELSE IF HasSuffix(field, sfxGt) THEN [op |-> Gt, keys |-> <<sfxGt>>]
    ELSE IF HasSuffix(field, sfxGte) THEN [op |-> Gte, keys |-> <<sfxGte>>]
    ELSE IF HasSuffix(field, sfxIn) \/ HasSuffix(field, sfxINup) THEN [op |-> In, keys |-> <<sfxIn, sfxINup>>]
    ELSE IF HasSuffix(field, sfxNotIn) \/ HasSuffix(field, sfxNOTIN) THEN [op |-> Nin, keys |-> <<sfxNotIn, sfxNOTIN>>]
    ELSE IF HasSuffix(field, sfxNe) \/ HasSuffix(field, sfxNe2) THEN [op |-> Ne, keys |-> <<sfxNe, sfxNe2>>]
    ELSE [op |-> Eq, keys |-> <<>>]

RECURSIVE removeKeys(_, _)
\* for _, key := range keys { field = strings.Replace(field, key, "", -1) }
removeKeys(field, keys) ==
    IF Len(keys) = 0 THEN field
    ELSE removeKeys(ReplaceAll(field, Head(keys)), Tail(keys))

\* One iteration of the loop of makeWhere: the leaf appended for (field, value)
whereLeaf(field, value) ==
    LET sel == whereOperator(field)
    IN  Leaf(Trim(removeKeys(field, sel.keys), " "), sel.op, value)

\* makeWhere(filters); entries lists the map in the order the range visits it
makeWhere(entries) ==
    [i \in 1..Len(entries) |-> whereLeaf(entries[i].key, entries[i].value)]

----------------------------------------------------------------------------
(* Inputs of makeWhere *)

\* Pieces the keys of a condition map are put together from: a name
\* character, a space and the ten markers.
Chunks ==
    { <<"a">>, <<" ">>, sfxLt, sfxLte, sfxGt, sfxGte, sfxIn, sfxINup,
      sfxNotIn, sfxNOTIN, sfxNe, sfxNe2 }

WhereValues == {1, 2}

RECURSIVE KeysOf(_)
\* the keys made of exactly n chunks
KeysOf(n) ==
    IF n = 0 THEN { <<>> }
    ELSE { k \o c : k \in KeysOf(n - 1), c \in Chunks }

RECURSIVE EntrySeqs(_)
\* the condition maps whose keys hold at most n chunks in total, each as the
\* sequence of its entries in one of the orders a range may visit them
EntrySeqs(n) ==
    {<<>>} \cup
    UNION { LET rests == EntrySeqs(n - m)
            IN  UNION { { <<[key |-> k, value |-> v]>> \o rest :
                            v \in WhereValues,
                            rest \in { r \in rests : \A i \in 1..Len(r) : r[i].key # k } } :
                        k \in KeysOf(m) } :
            m \in 1..n }

----------------------------------------------------------------------------
(* Query *)

\* A bson.D field of Query: nil, or the elements d
NilD == [nil |-> TRUE, d |-> <<>>]

\* append(s, xs...): appending nothing returns s itself, nil included
goAppend(s, xs) ==
    IF Len(xs) = 0 THEN s ELSE [nil |-> FALSE, d |-> s.d \o xs]

WhereReplacesFilter(qq, entries) ==
    [qq EXCEPT !.filter = [nil |-> FALSE, d |-> makeWhere(entries)]]

\* Query.Where
Where(qq, entries) ==
    [qq EXCEPT !.filter = goAppend(qq.filter, makeWhere(entries))]

combineNoNilCheck(qq, entries, comb) ==
    [qq EXCEPT !.filter =
        [nil |-> FALSE, d |-> << Node(comb, qq.filter.d, makeWhere(entries)) >>]]

\* The body AndWhere and OrWhere share, comb being operator.And or operator.Or
combine(qq, entries, comb) ==
    IF qq.filter.nil THEN Where(qq, entries)
    ELSE [qq EXCEPT !.filter =
            [nil |-> FALSE, d |-> << Node(comb, qq.filter.d, makeWhere(entries)) >>]]

AndWhereAlwaysNests(qq, entries) == combineNoNilCheck(qq, entries, And)

\* Query.AndWhere
AndWhere(qq, entries) == combine(qq, entries, And)

OrWhereWithAnd(qq, entries) == combine(qq, entries, And)

\* Query.OrWhere
OrWhere(qq, entries) == combine(qq, entries, Or)

\* The keys of the condition maps handed to the builder
CondKeys == { <<"a">>, <<"b">> \o sfxGte }

CondValues == {1}

\* The condition maps handed to the builder, each in every visiting order
CondMaps ==
    {<<>>} \cup
    { <<[key |-> k, value |-> v]>> : k \in CondKeys, v \in CondValues } \cup
    { <<[key |-> k1, value |-> v1], [key |-> k2, value |-> v2]>> :
        <<k1, k2>> \in { p \in CondKeys \X CondKeys : p[1] # p[2] },
        <<v1, v2>> \in CondValues \X CondValues }

\* A pointer field of Query: nil, or the number it points to
NilPtr == <<>>

\* The zero value of Query
FreshQuery ==
    [filter |-> NilD, sort |-> NilD, project |-> NilD, hint |-> NilPtr,
     limit |-> NilPtr, skip |-> NilPtr, batchSize |-> NilPtr]

----------------------------------------------------------------------------
(* Middleware *)

hookDo      == "hook.Do"
fieldDo     == "field.Do"
validatorDo == "validator.Do"

\* var middlewareCallback = []callback{hook.Do, field.Do, validator.Do}
Builtins == <<hookDo, fieldDo, validatorDo>>

\* The callbacks user code registers
UserCallbacks == {"user1", "user2"}

registerPrepend(cbs, cb) == <<cb>> \o cbs

\* Register: middlewareCallback = append(middlewareCallback, cb)
register(cbs, cb) == Append(cbs, cb)

\* The operation phases the sources name
BeforeInsert  == "BeforeInsert"
BeforeUpdate  == "BeforeUpdate"
BeforeReplace == "BeforeReplace"
BeforeUpsert  == "BeforeUpsert"
BeforeQuery   == "BeforeQuery"
AfterQuery    == "AfterQuery"

OpTypes == {BeforeInsert, BeforeUpdate, BeforeReplace, BeforeUpsert, BeforeQuery, AfterQuery}

\* The keys of the map fieldHandler
fieldHandler == {BeforeInsert, BeforeUpdate, BeforeReplace, BeforeUpsert}

\* Errors: nil, or the error callback cb returned on element elem, or an
\* error of the driver (src = "driver") or of decoding (src = "decode")
NoErr == [src |-> "nil", cb |-> 0, elem |-> 0]
CallbackErr(i, j) == [src |-> "callback", cb |-> i, elem |-> j]
DriverErr == [src |-> "driver", cb |-> 0, elem |-> 0]
DecodeErr == [src |-> "decode", cb |-> 0, elem |-> 0]

\* The doc argument by its reflect kind: an untyped nil, a pointer to a
\* struct, a struct value, a slice of n documents or a pointer to one
DocKinds == {"nil", "ptr", "struct", "slice", "ptrslice"}

Docs ==
    { [kind |-> "nil", n |-> 0], [kind |-> "ptr", n |-> 1], [kind |-> "struct", n |-> 1] }
    \cup { [kind |-> k, n |-> n] : k \in {"slice", "ptrslice"}, n \in 0..MaxDocs }

\* Events of a pipeline run
EvDo(op)      == [e |-> "Do", op |-> op, cb |-> 0, elem |-> 0]   \* middleware.Do is entered
EvCall(op, i) == [e |-> "call", op |-> op, cb |-> i, elem |-> 0] \* Do invokes the callback at position i
EvElem(op, i, j) == [e |-> "elem", op |-> op, cb |-> i, elem |-> j] \* callback i works on element j
EvFind        == [e |-> "find", op |-> "", cb |-> 0, elem |-> 0] \* the driver's find / findOne is issued
EvDecode      == [e |-> "decode", op |-> "", cb |-> 0, elem |-> 0] \* the result is decoded

\* beforeInsert, beforeUpdate and beforeUpsert end in `return nil`
beforeInsert == NoErr
beforeUpdate == NoErr
beforeUpsert == NoErr

\* field.do: the handler fieldHandler holds for opType, if any, is applied
do(opType) ==
    IF opType \notin fieldHandler THEN NoErr
    ELSE IF opType = BeforeInsert THEN beforeInsert
    ELSE IF opType = BeforeUpsert THEN beforeUpsert
    ELSE beforeUpdate

RECURSIVE sliceHandleNoReturn(_, _, _, _, _, _)
sliceHandleNoReturn(i, j, n, opType, failAt, handled) ==
    IF j > n THEN [events |-> <<>>, err |-> NoErr]
    ELSE LET rest == sliceHandleNoReturn(i, j + 1, n, opType, failAt, handled)
             ev   == IF handled THEN <<EvElem(opType, i, j)>> ELSE <<>>
         IN  [events |-> ev \o rest.events,
              err |-> IF j = failAt THEN CallbackErr(i, j) ELSE rest.err]

RECURSIVE sliceHandle(_, _, _, _, _, _)
\* The loop of sliceHandle from element j on, run by the callback at position
\* i on a slice of n documents: the per-element function is called on each
\* element in turn, and the loop returns at the first element on which it
\* errs (failAt, 0 if none does).  An "elem" event is logged for an element
\* when the per-element function has a handler for opType (handled).
sliceHandle(i, j, n, opType, failAt, handled) ==
    IF j > n THEN [events |-> <<>>, err |-> NoErr]
    ELSE LET ev == IF handled THEN <<EvElem(opType, i, j)>> ELSE <<>>
         IN  IF j = failAt THEN [events |-> ev, err |-> CallbackErr(i, j)]
             ELSE LET rest == sliceHandle(i, j + 1, n, opType, failAt, handled)
                  IN  [events |-> ev \o rest.events, err |-> rest.err]

\* the first element of a slice on which field.do errs, 0 for none
fieldFailAt(opType) == IF do(opType) = NoErr THEN 0 ELSE 1

\* field.Do, registered at position i
fieldDoRun(i, doc, opType) ==
    IF doc.kind = "nil" THEN [events |-> <<>>, err |-> NoErr]
    ELSE IF doc.kind = "slice"
         THEN sliceHandle(i, 1, doc.n, opType, fieldFailAt(opType), opType \in fieldHandler)
    ELSE IF doc.kind = "ptrslice"
         THEN sliceHandle(i, 1, doc.n, opType, fieldFailAt(opType), opType \in fieldHandler)
    ELSE IF doc.kind = "ptr"
         THEN [events |-> IF opType \in fieldHandler THEN <<EvElem(opType, i, 1)>> ELSE <<>>,
               err |-> IF do(opType) = NoErr THEN NoErr ELSE CallbackErr(i, 1)]
    ELSE [events |-> <<>>, err |-> NoErr]

\* hook.Do, validator.Do and the user callbacks at position i: a sequence is
\* dispatched element by element, in order, up to the first element that
\* errs (failAt); a single document is dispatched once; nil is a no-op
dispatchRun(i, doc, opType, failAt) ==
    IF doc.kind = "nil" THEN [events |-> <<>>, err |-> NoErr]
    ELSE sliceHandle(i, 1, doc.n, opType, failAt, TRUE)

\* cb(ctx, doc, opType, opts...) for the callback at position i
callbackRun(cbs, i, doc, opType, beh) ==
    IF cbs[i] = fieldDo THEN fieldDoRun(i, doc, opType)
    ELSE dispatchRun(i, doc, opType, beh[i])

RECURSIVE doLoopNoReturn(_, _, _, _, _)
doLoopNoReturn(cbs, i, doc, opType, beh) ==
    IF i > Len(cbs) THEN [events |-> <<>>, err |-> NoErr]
    ELSE LET r    == callbackRun(cbs, i, doc, opType, beh)
             rest == doLoopNoReturn(cbs, i + 1, doc, opType, beh)
         IN  [events |-> <<EvCall(opType, i)>> \o r.events \o rest.events,
              err |-> IF r.err # NoErr THEN r.err ELSE rest.err]

RECURSIVE doLoop(_, _, _, _, _)
\* for _, cb := range middlewareCallback, from position i on
doLoop(cbs, i, doc, opType, beh) ==
    IF i > Len(cbs) THEN [events |-> <<>>, err |-> NoErr]
    ELSE LET r == callbackRun(cbs, i, doc, opType, beh)
         IN  IF r.err # NoErr
             THEN [events |-> <<EvCall(opType, i)>> \o r.events, err |-> r.err]
             ELSE LET rest == doLoop(cbs, i + 1, doc, opType, beh)
                  IN  [events |-> <<EvCall(opType, i)>> \o r.events \o rest.events,
                       err |-> rest.err]

RECURSIVE elementMajor(_, _, _, _, _)
elementMajor(cbs, m, doc, opType, beh) ==
    IF m >= doc.n * Len(cbs) THEN [events |-> <<>>, err |-> NoErr]
    ELSE LET j  == (m \div Len(cbs)) + 1
             i  == (m % Len(cbs)) + 1
             ev == <<EvCall(opType, i), EvElem(opType, i, j)>>
         IN  IF beh[i] = j THEN [events |-> ev, err |-> CallbackErr(i, j)]
             ELSE LET rest == elementMajor(cbs, m + 1, doc, opType, beh)
                  IN  [events |-> ev \o rest.events, err |-> rest.err]

DoElementMajor(cbs, doc, opType, beh) ==
    LET r == IF doc.kind \in {"slice", "ptrslice"}
             THEN elementMajor(cbs, 0, doc, opType, beh)
             ELSE doLoop(cbs, 1, doc, opType, beh)
    IN  [events |-> <<EvDo(opType)>> \o r.events, err |-> r.err]

\* middleware.Do(ctx, doc, opType)
Do(cbs, doc, opType, beh) ==
    LET r == doLoop(cbs, 1, doc, opType, beh)
    IN  [events |-> <<EvDo(opType)>> \o r.events, err |-> r.err]

\* What the callbacks at the positions of cbs do with doc: for each position
\* the element it errs on, 0 for none; field.Do takes no such input
Behaviours(cbs, doc) ==
    { b \in [1..Len(cbs) -> 0..doc.n] : \A i \in 1..Len(cbs) : cbs[i] = fieldDo => b[i] = 0 }

NoInput == [op |-> "none"]

NoOutput == <<>>

\* A goroutine that has not called Do
IdleProc == [pc |-> "idle", cbs |-> <<>>, i |-> 0, beh |-> 0, log |-> <<>>, ret |-> NoErr]

----------------------------------------------------------------------------
(* Specification of makeWhere: the condition map is drawn, then compiled *)

WhereIdle == filters = <<>> /\ filter = <<>> /\ wpc = "idle"
QueryIdle == q = FreshQuery /\ hist = <<>>
MwIdle    == /\ middlewareCallback = Builtins
             /\ registered = <<>>
             /\ inp = NoInput
             /\ log = <<>>
             /\ ret = NoErr
             /\ out = NoOutput
             /\ procs = [p \in 1..MaxProcs |-> IdleProc]

InitWhere ==
    /\ filters \in EntrySeqs(MaxChunks)
    /\ filter = <<>>
    /\ wpc = "input"
    /\ QueryIdle
    /\ MwIdle

MakeWhereCall ==
    /\ wpc = "input"
    /\ filter' = makeWhere(filters)
    /\ wpc' = "done"
    /\ UNCHANGED <<filters, queryVars, mwVars>>

NextWhere == MakeWhereCall

SpecWhere == InitWhere /\ [][NextWhere]_vars

----------------------------------------------------------------------------
(* Specification of the builder: Where, AndWhere and OrWhere on one query *)

InitQuery ==
    /\ WhereIdle
    /\ QueryIdle
    /\ MwIdle

WhereCall(entries) ==
    /\ Len(hist) < MaxCalls
    /\ q' = Where(q, entries)
    /\ hist' = Append(hist, [op |-> "Where", arg |-> entries, pre |-> q])
    /\ UNCHANGED <<whereVars, mwVars>>

AndWhereCall(entries) ==
    /\ Len(hist) < MaxCalls
    /\ q' = AndWhere(q, entries)
    /\ hist' = Append(hist, [op |-> "AndWhere", arg |-> entries, pre |-> q])
    /\ UNCHANGED <<whereVars, mwVars>>

OrWhereCall(entries) ==
    /\ Len(hist) < MaxCalls
    /\ q' = OrWhere(q, entries)
    /\ hist' = Append(hist, [op |-> "OrWhere", arg |-> entries, pre |-> q])
    /\ UNCHANGED <<whereVars, mwVars>>

NextQuery ==
    \/ \E entries \in CondMaps : WhereCall(entries)
    \/ \E entries \in CondMaps : AndWhereCall(entries)
    \/ \E entries \in CondMaps : OrWhereCall(entries)

SpecQuery == InitQuery /\ [][NextQuery]_vars

----------------------------------------------------------------------------
(* Query.One and Query.All *)

\* q.opts: no FindOptions, or one whose QueryHook is hook
NilDoc == [kind |-> "nil", n |-> 0]

QueryOpts ==
    { [has |-> FALSE, hook |-> NilDoc] }
    \cup { [has |-> TRUE, hook |-> d] : d \in { NilDoc, [kind |-> "ptr", n |-> 1] } }

\* What the driver does with a find: it succeeds and the result decodes, it
\* fails, or it succeeds and the result does not decode
DriverOutcomes == {"ok", "driverErr", "decodeErr"}

Nothing == [events |-> <<>>, err |-> NoErr]

\* q.collection.FindOne(q.ctx, q.filter, opt).Decode(result)
findOneDecode(driver) ==
    IF driver = "driverErr" THEN [events |-> <<EvFind>>, err |-> DriverErr]
    ELSE IF driver = "decodeErr" THEN [events |-> <<EvFind, EvDecode>>, err |-> DecodeErr]
    ELSE [events |-> <<EvFind, EvDecode>>, err |-> NoErr]

\* cursor, err = q.collection.Find(...); c := Cursor{..., err: err}; err = c.All(result)
\* Cursor.All returns the error the cursor was built with, else the decoding error
findCursorAll(driver) ==
    IF driver = "driverErr" THEN [events |-> <<EvFind>>, err |-> DriverErr]
    ELSE IF driver = "decodeErr" THEN [events |-> <<EvFind, EvDecode>>, err |-> DecodeErr]
    ELSE [events |-> <<EvFind, EvDecode>>, err |-> NoErr]

oneIgnoringBefore(cbs, opts, behB, behA, driver) ==
    LET before == IF opts.has THEN Do(cbs, opts.hook, BeforeQuery, behB) ELSE Nothing
        found == findOneDecode(driver)
    IN  IF found.err # NoErr
        THEN [events |-> before.events \o found.events, err |-> found.err]
        ELSE LET after == IF opts.has THEN Do(cbs, opts.hook, AfterQuery, behA) ELSE Nothing
             IN  [events |-> before.events \o found.events \o after.events,
                  err |-> after.err]

\* Query.One
one(cbs, opts, behB, behA, driver) ==
    LET before == IF opts.has THEN Do(cbs, opts.hook, BeforeQuery, behB) ELSE Nothing
    IN  IF before.err # NoErr THEN before
        ELSE LET found == findOneDecode(driver)
             IN  IF found.err # NoErr
                 THEN [events |-> before.events \o found.events, err |-> found.err]
                 ELSE LET after == IF opts.has THEN Do(cbs, opts.hook, AfterQuery, behA)
                                   ELSE Nothing
                      IN  [events |-> before.events \o found.events \o after.events,
                           err |-> after.err]

\* Query.All
all(cbs, opts, behB, behA, driver) ==
    LET before == IF opts.has THEN Do(cbs, opts.hook, BeforeQuery, behB) ELSE Nothing
    IN  IF before.err # NoErr THEN before
        ELSE LET found == findCursorAll(driver)
             IN  IF found.err # NoErr
                 THEN [events |-> before.events \o found.events, err |-> found.err]
                 ELSE LET after == IF opts.has THEN Do(cbs, opts.hook, AfterQuery, behA)
                                   ELSE Nothing
                      IN  [events |-> before.events \o found.events \o after.events,
                           err |-> after.err]

----------------------------------------------------------------------------
(* Specification of the pipeline: the callbacks are registered, then one    *)
(* operation runs: middleware.Do, Query.One or Query.All.  An operation     *)
(* leaves middlewareCallback as it is, and inp, log and ret describe the    *)
(* last operation only, so a behaviour observes one operation.              *)

InitPipeline ==
    /\ WhereIdle
    /\ QueryIdle
    /\ MwIdle

Register(cb) ==
    /\ Len(registered) < MaxUser
    /\ middlewareCallback' = register(middlewareCallback, cb)
    /\ registered' = Append(registered, cb)
    /\ UNCHANGED <<inp, log, ret, out, whereVars, queryVars, procs>>

DoCall(doc, opType, beh) ==
    LET r == Do(middlewareCallback, doc, opType, beh)
    IN  /\ inp' = [op |-> "Do", cbs |-> middlewareCallback, doc |-> doc,
                   opType |-> opType, beh |-> beh]
        /\ log' = r.events
        /\ ret' = r.err
        /\ UNCHANGED <<middlewareCallback, registered, out, whereVars, queryVars, procs>>

OneCall(opts, behB, behA, driver) ==
    LET r == one(middlewareCallback, opts, behB, behA, driver)
    IN  /\ inp' = [op |-> "One", cbs |-> middlewareCallback, opts |-> opts,
                   behB |-> behB, behA |-> behA, driver |-> driver]
        /\ log' = r.events
        /\ ret' = r.err
        /\ UNCHANGED <<middlewareCallback, registered, out, whereVars, queryVars, procs>>

AllCall(opts, behB, behA, driver) ==
    LET r == all(middlewareCallback, opts, behB, behA, driver)
    IN  /\ inp' = [op |-> "All", cbs |-> middlewareCallback, opts |-> opts,
                   behB |-> behB, behA |-> behA, driver |-> driver]
        /\ log' = r.events
        /\ ret' = r.err
        /\ UNCHANGED <<middlewareCallback, registered, out, whereVars, queryVars, procs>>

NextPipeline ==
    \/ /\ inp = NoInput
       /\ \E cb \in UserCallbacks : Register(cb)
    \/ /\ inp = NoInput
       /\ \E doc \in Docs, opType \in OpTypes :
            \E beh \in Behaviours(middlewareCallback, doc) : DoCall(doc, opType, beh)
    \/ /\ inp = NoInput
       /\ \E opts \in QueryOpts, driver \in DriverOutcomes :
            \E behB, behA \in Behaviours(middlewareCallback, opts.hook) :
                OneCall(opts, behB, behA, driver)
    \/ /\ inp = NoInput
       /\ \E opts \in QueryOpts, driver \in DriverOutcomes :
            \E behB, behA \in Behaviours(middlewareCallback, opts.hook) :
                AllCall(opts, behB, behA, driver)

SpecPipeline == InitPipeline /\ [][NextPipeline]_vars

----------------------------------------------------------------------------
(* Claims about makeWhere, checked under SpecWhere *)

noMarker(k) ==
    /\ ~HasSuffix(k, sfxLte) /\ ~HasSuffix(k, sfxLt)
    /\ ~HasSuffix(k, sfxGte) /\ ~HasSuffix(k, sfxGt)
    /\ ~HasSuffix(k, sfxIn) /\ ~HasSuffix(k, sfxINup)
    /\ ~HasSuffix(k, sfxNe) /\ ~HasSuffix(k, sfxNe2)

\* C5: a key ending in " <=", " <", " >=", " >", " in"/" IN", " !="/" <>"
\* compiles to a leaf with operator lte, lt, gte, gt, in, ne respectively, a
\* key with no marker to an equality leaf; makeWhere emits exactly one leaf
\* per map entry, carrying the entry's value.
C5_OperatorPerMarker ==
    wpc = "done" =>
        /\ Len(filter) = Len(filters)
        /\ \A i \in 1..Len(filters) :
            LET k == filters[i].key
                e == filter[i]
            IN  /\ e.kind = "leaf"
                /\ e.value = filters[i].value
                /\ HasSuffix(k, sfxLte) => e.op = Lte
                /\ HasSuffix(k, sfxLt) => e.op = Lt
                /\ HasSuffix(k, sfxGte) => e.op = Gte
                /\ HasSuffix(k, sfxGt) => e.op = Gt
                /\ (HasSuffix(k, sfxIn) \/ HasSuffix(k, sfxINup)) => e.op = In
                /\ (HasSuffix(k, sfxNe) \/ HasSuffix(k, sfxNe2)) => e.op = Ne
                /\ noMarker(k) => e.op = Eq

\* A map of two entries with different values, the key " <=" and a key
\* without marker, has been compiled.
C5_Witness ==
    /\ wpc = "done"
    /\ Len(filters) = 2
    /\ filters[1].value # filters[2].value
    /\ \E i, j \in 1..2 :
        /\ filters[i].key = sfxLte /\ filter[i].op = Lte /\ filter[i].field = <<>>
        /\ filters[j].key = <<"a">> /\ filter[j].op = Eq /\ filter[j].field = <<"a">>

\* the key without its last n characters
dropLast(k, n) == SubSeq(k, 1, Len(k) - n)

\* C6: a key ending in " not in" or " NOT IN" compiles to a leaf whose
\* operator is nin and whose field is the key without that marker.
C6_NotInCompilesToNin ==
    wpc = "done" =>
        \A i \in 1..Len(filters) :
            LET k == filters[i].key
            IN  (HasSuffix(k, sfxNotIn) \/ HasSuffix(k, sfxNOTIN)) =>
                    /\ filter[i].op = Nin
                    /\ filter[i].field = Trim(dropLast(k, Len(sfxNotIn)), " ")

\* the marker at the end of key k that makeWhere recognised, <<>> if none
trailingMarker(k) ==
    LET ms == whereOperator(k).keys
        hit == { i \in 1..Len(ms) : HasSuffix(k, ms[i]) }
    IN  IF hit = {} THEN <<>> ELSE ms[CHOOSE i \in hit : TRUE]

\* C7: the field of a leaf is the key with only its trailing marker removed
\* and the surrounding spaces trimmed; the text before the trailing marker is
\* left as it is.
C7_OnlyTrailingMarkerRemoved ==
    wpc = "done" =>
        \A i \in 1..Len(filters) :
            LET k == filters[i].key
            IN  filter[i].field = Trim(dropLast(k, Len(trailingMarker(k))), " ")

----------------------------------------------------------------------------
(* Claims about Where, AndWhere and OrWhere, checked under SpecQuery *)

RECURSIVE Depth(_)
\* the number of combinator nodes on the longest path into the bson.D d
Depth(d) ==
    IF Len(d) = 0 THEN 0
    ELSE LET e == Head(d)
             h == IF e.kind = "leaf" THEN 0
                  ELSE 1 + (IF Depth(e.children[1]) >= Depth(e.children[2])
                            THEN Depth(e.children[1]) ELSE Depth(e.children[2]))
             t == Depth(Tail(d))
         IN  IF h >= t THEN h ELSE t

isFlat(d) == \A i \in 1..Len(d) : d[i].kind = "leaf"

lastCall == hist[Len(hist)]

combinatorOf(op) == IF op = "AndWhere" THEN And ELSE Or

\* C8 as stated: for all condition maps C1 and C2, empty ones included,
\* Where(C1) then AndWhere(C2) on a fresh query yield one AND node with
\* children makeWhere(C1) and makeWhere(C2).
C8_WhereThenAndWhereAnyMaps ==
    (Len(hist) = 2 /\ hist[1].op = "Where" /\ hist[2].op = "AndWhere") =>
        q.filter = [nil |-> FALSE,
                    d |-> << Node(And, makeWhere(hist[1].arg), makeWhere(hist[2].arg)) >>]

\* C8 amended: for a non-empty C1 and any C2, Where(C1) then AndWhere(C2) on
\* a fresh query yield one AND node with children makeWhere(C1) and
\* makeWhere(C2); for an empty C1 the filter is still nil after Where(C1) and
\* AndWhere(C2) yields the flat leaves makeWhere(C2) without a node.
C8_WhereThenAndWhere ==
    (Len(hist) = 2 /\ hist[1].op = "Where" /\ hist[2].op = "AndWhere") =>
        IF hist[1].arg # <<>>
        THEN q.filter = [nil |-> FALSE,
                         d |-> << Node(And, makeWhere(hist[1].arg), makeWhere(hist[2].arg)) >>]
        ELSE /\ hist[2].pre.filter.nil
             /\ q.filter.d = makeWhere(hist[2].arg)
             /\ isFlat(q.filter.d)

\* Where on a non-empty map, then AndWhere on an empty one, have been called.
C8_Witness ==
    /\ Len(hist) = 2
    /\ hist[1].op = "Where" /\ Len(hist[1].arg) = 2
    /\ hist[2].op = "AndWhere" /\ hist[2].arg = <<>>
    /\ q.filter.d[1].kind = "node"

\* C9: AndWhere / OrWhere called on an existing filter yields exactly one
\* node, AND / OR, whose left child is the whole previous filter and whose
\* right child is the newly compiled leaves; the depth grows by one and the
\* right child is flat.
C9_CombinatorNestsPreviousFilter ==
    (Len(hist) > 0 /\ lastCall.op \in {"AndWhere", "OrWhere"} /\ ~lastCall.pre.filter.nil) =>
        /\ ~q.filter.nil
        /\ Len(q.filter.d) = 1
        /\ q.filter.d[1].kind = "node"
        /\ q.filter.d[1].op = combinatorOf(lastCall.op)
        /\ q.filter.d[1].children[1] = lastCall.pre.filter.d
        /\ q.filter.d[1].children[2] = makeWhere(lastCall.arg)
        /\ isFlat(q.filter.d[1].children[2])
        /\ Depth(q.filter.d) = Depth(lastCall.pre.filter.d) + 1

\* OrWhere has been called on a filter that AndWhere had nested before.
C9_Witness ==
    /\ Len(hist) = 3
    /\ hist[2].op = "AndWhere" /\ ~hist[2].pre.filter.nil
    /\ hist[3].op = "OrWhere"
    /\ Depth(q.filter.d) = 2
    /\ q.filter.d[1].op = Or
    /\ q.filter.d[1].children[1][1].op = And

\* C10: on a query without filter, AndWhere(C) and OrWhere(C) leave the query
\* as Where(C) would: the flat leaves of C and no node.
C10_NoFilterBehavesLikeWhere ==
    (Len(hist) > 0 /\ lastCall.op \in {"AndWhere", "OrWhere"} /\ lastCall.pre.filter.nil) =>
        /\ q = Where(lastCall.pre, lastCall.arg)
        /\ isFlat(q.filter.d)
        /\ Len(q.filter.d) = Len(lastCall.arg)

\* OrWhere has been called with two conditions on a query without filter.
C10_Witness ==
    /\ Len(hist) = 1
    /\ lastCall.op = "OrWhere"
    /\ lastCall.pre.filter.nil
    /\ Len(lastCall.arg) = 2
    /\ ~q.filter.nil

----------------------------------------------------------------------------
(* Claims about the pipeline, checked under SpecPipeline *)

isCall(ev) == ev.e = "call"
isElem(ev) == ev.e = "elem"

\* the positions of the callbacks that err under behaviour beh
failing(beh) == { i \in DOMAIN beh : beh[i] > 0 }

\* the least element of a non-empty set of numbers
least(S) == CHOOSE x \in S : \A y \in S : x <= y

\* C1: middleware.Do invokes the callbacks in registration order, each at
\* most once; it returns the error of the first callback that errs and
\* invokes no callback after it; if none errs, every callback is invoked
\* once and Do returns nil.
C1_DoInOrderFailFast ==
    inp.op = "Do" =>
        LET calls == SelectSeq(log, isCall)
            bad   == failing(inp.beh)
        IN  /\ Len(calls) <= Len(inp.cbs)
            /\ \A m \in 1..Len(calls) : calls[m].cb = m
            /\ IF bad = {}
               THEN ret = NoErr /\ Len(calls) = Len(inp.cbs)
               ELSE /\ Len(calls) = least(bad)
                    /\ ret = CallbackErr(least(bad), inp.beh[least(bad)])

\* Do has run five callbacks of which the third and the fourth would err: it
\* returned the error of the third and did not invoke the fourth.
C1_Witness ==
    /\ inp.op = "Do"
    /\ Len(inp.cbs) = 5
    /\ inp.beh[3] > 0 /\ inp.beh[4] > 0
    /\ ret.cb = 3
    /\ Len(SelectSeq(log, isCall)) = 3

\* the log from the first driver call on
isFind(ev) == ev.e = "find"
isAfterDo(ev) == ev.e = "Do" /\ ev.op = AfterQuery

\* C2: in Query.One and Query.All, when the before-query run of the
\* middleware returns an error, the find is never issued and that error is
\* returned; the after-query run happens only after the find was issued and
\* its result decoded, never after a driver or decoding error.
C2_BeforeGuardsFindAfterFollowsIt ==
    inp.op \in {"One", "All"} =>
        LET bad == failing(inp.behB)
        IN  /\ (inp.opts.has /\ bad # {}) =>
                /\ SelectSeq(log, isFind) = <<>>
                /\ ret = CallbackErr(least(bad), inp.behB[least(bad)])
            /\ \A p \in 1..Len(log) :
                isAfterDo(log[p]) =>
                    /\ inp.driver = "ok"
                    /\ \E p1, p2 \in 1..(p - 1) :
                        p1 < p2 /\ log[p1] = EvFind /\ log[p2] = EvDecode
            /\ inp.driver # "ok" => SelectSeq(log, isAfterDo) = <<>>

\* Query.All has run with a FindOptions whose before-query run failed in the
\* validator: nothing but the three invoked callbacks is in the log.
C2_Witness ==
    /\ inp.op = "All"
    /\ inp.opts.has
    /\ inp.behB[3] > 0
    /\ ret = CallbackErr(3, 1)
    /\ SelectSeq(log, isFind) = <<>>
    /\ Len(SelectSeq(log, isCall)) = 3

isPrefixOf(s, t) == Len(s) <= Len(t) /\ SubSeq(t, 1, Len(s)) = s

\* C3: the callback list is the three built-ins hook dispatch, field
\* defaulting, validation followed by the user callbacks in the order of
\* their registration; Register only appends to it.
C3_RegisterAppendsAfterBuiltins ==
    /\ [](middlewareCallback = Builtins \o registered)
    /\ [][isPrefixOf(middlewareCallback, middlewareCallback')]_vars

\* Two different user callbacks have been registered.
C3_Witness ==
    /\ registered = <<"user2", "user1">>
    /\ middlewareCallback = <<hookDo, fieldDo, validatorDo, "user2", "user1">>

isSequence(doc) == doc.kind \in {"slice", "ptrslice"}

\* the elements the callback at position i worked on, in order
elemsOf(l, i) ==
    LET byI(ev) == ev.e = "elem" /\ ev.cb = i
        evs == SelectSeq(l, byI)
    IN  [m \in 1..Len(evs) |-> evs[m].elem]

upTo(n) == [m \in 1..n |-> m]

\* C4 as stated: when the document is a sequence and processing fails on
\* element j, elements 1..j-1 have been processed in order, element j is the
\* last one touched, and no callback has processed an element after j.
C4_NoElementAfterFailure ==
    (inp.op = "Do" /\ isSequence(inp.doc) /\ ret # NoErr) =>
        /\ elemsOf(log, ret.cb) = upTo(ret.elem)
        /\ log[Len(log)] = EvElem(inp.opType, ret.cb, ret.elem)
        /\ \A p \in 1..Len(log) : isElem(log[p]) => log[p].elem <= ret.elem

\* C4 amended: when the document is a sequence of n documents and callback k
\* fails on element j, callback k has processed elements 1..j in order and
\* none after j, element j is the last one touched, and no callback
\* registered after k has processed any element; every callback registered
\* before k has processed all n elements, those after j included (field.Do
\* in the phases it has a handler for).
C4_FailingCallbackStopsAtElement ==
    (inp.op = "Do" /\ isSequence(inp.doc) /\ ret # NoErr) =>
        /\ elemsOf(log, ret.cb) = upTo(ret.elem)
        /\ log[Len(log)] = EvElem(inp.opType, ret.cb, ret.elem)
        /\ \A i \in 1..Len(inp.cbs) :
            /\ i > ret.cb => elemsOf(log, i) = <<>>
            /\ i < ret.cb =>
                elemsOf(log, i) =
                    IF inp.cbs[i] = fieldDo /\ inp.opType \notin fieldHandler
                    THEN <<>> ELSE upTo(inp.doc.n)

\* The validator failed on the second of three documents before an insert,
\* after field.Do had worked on the third.
C4_Witness ==
    /\ inp.op = "Do"
    /\ inp.doc = [kind |-> "slice", n |-> 3]
    /\ inp.opType = BeforeInsert
    /\ ret = CallbackErr(3, 2)
    /\ elemsOf(log, 2) = <<1, 2, 3>>
    /\ elemsOf(log, 3) = <<1, 2>>
    /\ Len(inp.cbs) = 5

----------------------------------------------------------------------------
(* Claims about Where, checked under SpecQuery *)

RECURSIVE conditionsOf(_)
\* the number of conditions the calls of h were given
conditionsOf(h) ==
    IF h = <<>> THEN 0 ELSE Len(h[1].arg) + conditionsOf(Tail(h))

onlyWhere(h) == \A i \in 1..Len(h) : h[i].op = "Where"

\* C11: Where never introduces a node: after calls of Where only, the filter
\* is flat and holds one leaf per condition supplied; and Where called on any
\* filter, one holding a node included, leaves what was there unchanged and
\* appends its leaves behind it at the top level.
C11_WhereAppendsFlatLeaves ==
    /\ onlyWhere(hist) =>
        /\ isFlat(q.filter.d)
        /\ Len(q.filter.d) = conditionsOf(hist)
    /\ (Len(hist) > 0 /\ lastCall.op = "Where") =>
        /\ q.filter.d = lastCall.pre.filter.d \o makeWhere(lastCall.arg)
        /\ isFlat(makeWhere(lastCall.arg))
        /\ Len(q.filter.d) = Len(lastCall.pre.filter.d) + Len(lastCall.arg)

\* Where has been called with two conditions on a filter that is one AND
\* node: the node is followed by the two leaves.
C11_Witness ==
    /\ Len(hist) = 3
    /\ hist[2].op = "AndWhere" /\ ~hist[2].pre.filter.nil
    /\ hist[3].op = "Where" /\ Len(hist[3].arg) = 2
    /\ Len(q.filter.d) = 3
    /\ q.filter.d[1] = hist[3].pre.filter.d[1]
    /\ q.filter.d[1].kind = "node"
    /\ q.filter.d[2].kind = "leaf" /\ q.filter.d[3].kind = "leaf"

----------------------------------------------------------------------------
(* Field defaulting: field.Do on documents with the fields its hooks own *)

\* What the type of a document implements: no hook, DefaultFieldHook, or
\* CustomFieldsHook with a mapping that names fields that exist, a field
\* that does not exist, or a field of an incompatible type
Caps == {"none", "default", "custom", "customMissing", "customBadType"}

\* The values of a field before the call: 0 is the zero value
FieldValues == {0, 1}

\* A document behind a pointer: its hooks and the fields they own
Documents ==
    [cap : Caps, nil : {FALSE}, id : FieldValues, createAt : FieldValues,
     updateAt : FieldValues]

\* A nil pointer of a document type
NilDocuments ==
    [cap : {"none", "default"}, nil : {TRUE}, id : {0}, createAt : {0}, updateAt : {0}]

\* The elements of a slice: new documents and stored ones
SliceDocuments ==
    { e \in Documents : /\ e.cap \in {"none", "default"}
                        /\ e.id = e.createAt
                        /\ e.createAt = e.updateAt }

SeqsUpTo(S, n) == UNION { [1..k -> S] : k \in 0..n }

\* The values of doc: untyped nil, a pointer to a document or a nil pointer,
\* a struct value, a slice (nil or empty when it has no element) and a
\* pointer to a slice
FieldDocs ==
    {[kind |-> "nil", elems |-> <<>>]} \cup
    { [kind |-> "ptr", elems |-> <<e>>] : e \in Documents \cup NilDocuments } \cup
    { [kind |-> "struct", elems |-> <<e>>] : e \in SliceDocuments } \cup
    { [kind |-> k, elems |-> s] :
        k \in {"slice", "ptrslice"}, s \in SeqsUpTo(SliceDocuments, MaxDocs) }

\* The nanoseconds of a millisecond
Millisecond == 1000000

\* util.Now for a clock that reads t: t truncated to the millisecond
Now(t) == (t \div Millisecond) * Millisecond

\* The clock during one call, in nanoseconds: the time of its first reading,
\* on a millisecond or past one, and by how much it has advanced at each
\* further reading
Clocks == [start : {2 * Millisecond, 3 * Millisecond + 1}, step : {0, 1}]

\* time.Now() at a reading that `reads` readings precede
timeNow(clk, reads) == clk.start + clk.step * reads

\* primitive.NewObjectID() for element j: a value no document holds yet
NewObjectID(j) == j + 1

\* A panic of the Go runtime, which unwinds through every caller
Panic == [src |-> "panic", cb |-> 0, elem |-> 0]

\* The call of a hook method on element j
EvHook(method, j) == [e |-> method, op |-> "hook", cb |-> 0, elem |-> j]

\* A handler at its entry: the document, its position, the clock readings so
\* far, the hook methods called, the panic raised if any, and whether an
\* assignment through the custom mapping failed
entry(e, j, reads) ==
    [e |-> e, j |-> j, reads |-> reads, events |-> <<>>, err |-> NoErr, failed |-> FALSE]

invoke(s, method) == [s EXCEPT !.events = Append(@, EvHook(method, s.j))]

\* DefaultField.DefaultUpdateAt; a nil receiver is dereferenced
DefaultUpdateAt(s, clk) ==
    IF s.err # NoErr THEN s
    ELSE LET c == invoke(s, "DefaultUpdateAt")
         IN  IF s.e.nil THEN [c EXCEPT !.err = Panic]
             ELSE [c EXCEPT !.e.updateAt = timeNow(clk, s.reads), !.reads = @ + 1]

DefaultCreateAtAlways(s, clk) ==
    IF s.err # NoErr THEN s
    ELSE LET c == invoke(s, "DefaultCreateAt")
         IN  IF s.e.nil THEN [c EXCEPT !.err = Panic]
             ELSE [c EXCEPT !.e.createAt = timeNow(clk, s.reads), !.reads = @ + 1]

\* DefaultField.DefaultCreateAt
DefaultCreateAt(s, clk) ==
    IF s.err # NoErr THEN s
    ELSE LET c == invoke(s, "DefaultCreateAt")
         IN  IF s.e.nil THEN [c EXCEPT !.err = Panic]
             ELSE IF s.e.createAt = 0
                  THEN [c EXCEPT !.e.createAt = timeNow(clk, s.reads), !.reads = @ + 1]
                  ELSE c

\* DefaultField.DefaultId
DefaultId(s) ==
    IF s.err # NoErr THEN s
    ELSE LET c == invoke(s, "DefaultId")
         IN  IF s.e.nil THEN [c EXCEPT !.err = Panic]
             ELSE IF s.e.id = 0 THEN [c EXCEPT !.e.id = NewObjectID(s.j)] ELSE c

CustomCaps == {"custom", "customMissing", "customBadType"}

\* CustomFieldsHook.CustomFields of the document type: it returns the mapping
CustomFields(s) ==
    IF s.err # NoErr THEN s ELSE invoke(s, "CustomFields")

\* CustomFields.CustomId: the mapped field is assigned as DefaultId assigns
\* Id; the assignment fails when the mapping does not name a field of the
\* identity type
CustomId(s) ==
    IF s.err # NoErr THEN s
    ELSE LET c == invoke(s, "CustomId")
         IN  IF s.e.cap # "custom" THEN [c EXCEPT !.failed = TRUE]
             ELSE IF s.e.id = 0 THEN [c EXCEPT !.e.id = NewObjectID(s.j)] ELSE c

\* CustomFields.CustomCreateTime
CustomCreateTime(s, clk) ==
    IF s.err # NoErr THEN s
    ELSE LET c == invoke(s, "CustomCreateTime")
         IN  IF s.e.cap # "custom" THEN [c EXCEPT !.failed = TRUE]
             ELSE IF s.e.createAt = 0
                  THEN [c EXCEPT !.e.createAt = timeNow(clk, s.reads), !.reads = @ + 1]
                  ELSE c

\* CustomFields.CustomUpdateTime
CustomUpdateTime(s, clk) ==
    IF s.err # NoErr THEN s
    ELSE LET c == invoke(s, "CustomUpdateTime")
         IN  IF s.e.cap # "custom" THEN [c EXCEPT !.failed = TRUE]
             ELSE [c EXCEPT !.e.updateAt = timeNow(clk, s.reads), !.reads = @ + 1]

\* beforeInsert on element j: the calls return nothing that is looked at, and
\* the handler returns nil
beforeInsertFields(e, j, reads, clk) ==
    LET a == IF e.cap = "default"
             THEN DefaultUpdateAt(DefaultCreateAt(DefaultId(entry(e, j, reads)), clk), clk)
             ELSE entry(e, j, reads)
    IN  IF e.cap \in CustomCaps
        THEN CustomUpdateTime(CustomCreateTime(CustomId(CustomFields(a)), clk), clk)
        ELSE a

\* beforeUpdate on element j
beforeUpdateFields(e, j, reads, clk) ==
    LET a == IF e.cap = "default"
             THEN DefaultUpdateAt(entry(e, j, reads), clk)
             ELSE entry(e, j, reads)
    IN  IF e.cap \in CustomCaps
        THEN CustomUpdateTime(CustomFields(a), clk)
        ELSE a

\* beforeUpsert on element j
beforeUpsertFields(e, j, reads, clk) ==
    LET a == IF e.cap = "default"
             THEN DefaultUpdateAt(DefaultCreateAt(DefaultId(entry(e, j, reads)), clk), clk)
             ELSE entry(e, j, reads)
    IN  IF e.cap \in CustomCaps
        THEN CustomUpdateTime(CustomCreateTime(CustomId(CustomFields(a)), clk), clk)
        ELSE a

handlerOfReplaceInserts(opType) ==
    CASE opType = BeforeInsert  -> "beforeInsert"
      [] opType = BeforeUpdate  -> "beforeUpdate"
      [] opType = BeforeReplace -> "beforeInsert"
      [] opType = BeforeUpsert  -> "beforeUpsert"
      [] OTHER                  -> "none"

\* fieldHandler[opType]: the handler of a phase, "none" for a phase without
handlerOf(opType) ==
    CASE opType = BeforeInsert  -> "beforeInsert"
      [] opType = BeforeUpdate  -> "beforeUpdate"
      [] opType = BeforeReplace -> "beforeUpdate"
      [] opType = BeforeUpsert  -> "beforeUpsert"
      [] OTHER                  -> "none"

\* do on element j
doFields(e, j, reads, clk, opType) ==
    CASE handlerOf(opType) = "none"         -> entry(e, j, reads)
      [] handlerOf(opType) = "beforeInsert" -> beforeInsertFields(e, j, reads, clk)
      [] handlerOf(opType) = "beforeUpdate" -> beforeUpdateFields(e, j, reads, clk)
      [] handlerOf(opType) = "beforeUpsert" -> beforeUpsertFields(e, j, reads, clk)

RECURSIVE sliceHandleFields(_, _, _, _, _)
\* sliceHandle from element j on: do on each element in index order; the
\* result holds the elements as the call leaves them
sliceHandleFields(elems, j, reads, clk, opType) ==
    IF j > Len(elems)
    THEN [elems |-> elems, events |-> <<>>, err |-> NoErr]
    ELSE LET r == doFields(elems[j], j, reads, clk, opType)
             done == [elems EXCEPT ![j] = r.e]
         IN  IF r.err # NoErr
             THEN [elems |-> done, events |-> r.events, err |-> r.err]
             ELSE LET t == sliceHandleFields(done, j + 1, r.reads, clk, opType)
                  IN  [elems |-> t.elems, events |-> r.events \o t.events, err |-> t.err]

\* field.Do on a document with its fields
DoFields(doc, opType, clk) ==
    CASE doc.kind = "nil" ->
            [elems |-> doc.elems, events |-> <<>>, err |-> NoErr]
      [] doc.kind \in {"slice", "ptrslice"} ->
            sliceHandleFields(doc.elems, 1, 0, clk, opType)
      [] doc.kind = "ptr" ->
            LET r == doFields(doc.elems[1], 1, 0, clk, opType)
            IN  [elems |-> <<r.e>>, events |-> r.events, err |-> r.err]
      [] OTHER ->
            [elems |-> doc.elems, events |-> <<>>, err |-> NoErr]

----------------------------------------------------------------------------
(* Specification of field defaulting: one call of field.Do *)

InitField ==
    /\ WhereIdle
    /\ QueryIdle
    /\ MwIdle

FieldDoCall(doc, opType, clk) ==
    LET r == DoFields(doc, opType, clk)
    IN  /\ inp' = [op |-> "field.Do", doc |-> doc, opType |-> opType, clk |-> clk]
        /\ log' = r.events
        /\ ret' = r.err
        /\ out' = r.elems
        /\ UNCHANGED <<middlewareCallback, registered, whereVars, queryVars, procs>>

NextField ==
    /\ inp = NoInput
    /\ \E doc \in FieldDocs, opType \in OpTypes, clk \in Clocks : FieldDoCall(doc, opType, clk)

SpecField == InitField /\ [][NextField]_vars

----------------------------------------------------------------------------
(* Claims about field defaulting, checked under SpecField *)

\* field.Do has been called in one of the phases ops
fieldDoIn(ops) == inp.op = "field.Do" /\ inp.opType \in ops

\* the positions of the documents do is called on
reached == IF inp.doc.kind \in {"ptr", "slice", "ptrslice"} THEN DOMAIN inp.doc.elems ELSE {}

\* t is a reading of the clock during the last call
isReading(t) == \E k \in 0..(2 * Len(inp.doc.elems)) : t = timeNow(inp.clk, k)

\* C12: for a document implementing DefaultFieldHook, before-insert and
\* before-upsert set the identity only when it is zero, set the creation
\* time only when it is zero, and always overwrite the update time with a
\* reading of the clock; a non-zero identity or creation time is kept.
C12_DefaultsOnlyWhenZero ==
    fieldDoIn({BeforeInsert, BeforeUpsert}) =>
        \A j \in reached :
            LET pre  == inp.doc.elems[j]
                post == out[j]
            IN  (pre.cap = "default" /\ ~pre.nil) =>
                    /\ ret = NoErr
                    /\ IF pre.id = 0 THEN post.id # 0 ELSE post.id = pre.id
                    /\ IF pre.createAt = 0
                       THEN isReading(post.createAt)
                       ELSE post.createAt = pre.createAt
                    /\ isReading(post.updateAt)
                    /\ post.updateAt # pre.updateAt

\* before-upsert has run over a slice of a stored and a new document: the
\* stored one kept identity and creation time, the new one got both, and
\* both got a new update time.
C12_Witness ==
    /\ fieldDoIn({BeforeUpsert})
    /\ inp.doc.kind = "slice" /\ Len(inp.doc.elems) = 2
    /\ inp.doc.elems[1].cap = "default" /\ inp.doc.elems[1].createAt = 1
    /\ inp.doc.elems[2].cap = "default" /\ inp.doc.elems[2].createAt = 0
    /\ out[1].id = 1 /\ out[1].createAt = 1 /\ out[1].updateAt > 1
    /\ out[2].id # 0 /\ out[2].createAt > 1 /\ out[2].updateAt > 1

\* C13: field.Do changes identity and creation time in before-insert and
\* before-upsert only: in before-update and before-replace it leaves both as
\* they were and gives a document implementing DefaultFieldHook a new update
\* time; in every phase without handler it leaves the whole document as it
\* was, calls no hook method and returns nil.
C13_PhaseFrame ==
    /\ fieldDoIn({BeforeUpdate, BeforeReplace}) =>
        /\ Len(out) = Len(inp.doc.elems)
        /\ \A j \in DOMAIN out :
            LET pre  == inp.doc.elems[j]
                post == out[j]
            IN  /\ post.id = pre.id
                /\ post.createAt = pre.createAt
                /\ (j \in reached /\ pre.cap = "default" /\ ~pre.nil) =>
                        isReading(post.updateAt) /\ post.updateAt # pre.updateAt
    /\ fieldDoIn(OpTypes \ fieldHandler) =>
        /\ out = inp.doc.elems
        /\ log = <<>>
        /\ ret = NoErr

\* before-replace has run on a new document: identity and creation time are
\* still zero and the update time is set.
C13_Witness ==
    /\ fieldDoIn({BeforeReplace})
    /\ inp.doc.kind = "ptr"
    /\ inp.doc.elems[1] = [cap |-> "default", nil |-> FALSE, id |-> 0, createAt |-> 0, updateAt |-> 0]
    /\ out[1].id = 0 /\ out[1].createAt = 0 /\ out[1].updateAt > 1

\* C14: when the custom field mapping of a document names a field that does
\* not exist or a field of an incompatible type, field.Do returns a non-nil
\* error in the phases that assign through the mapping.
C14_InvalidMappingIsReported ==
    (/\ fieldDoIn(fieldHandler)
     /\ \E j \in reached : inp.doc.elems[j].cap \in {"customMissing", "customBadType"})
        => ret # NoErr

\* doc is an untyped nil, a nil or empty slice or a pointer to one, or a nil
\* pointer of a document type
isNilDocument(doc) ==
    \/ doc.kind = "nil"
    \/ doc.kind \in {"slice", "ptrslice"} /\ doc.elems = <<>>
    \/ doc.kind = "ptr" /\ doc.elems[1].nil

\* C15: in every phase field.Do on a nil or empty document is a no-op: it
\* returns nil, calls no hook method and does not panic.
C15_NilDocumentIsNoOp ==
    (inp.op = "field.Do" /\ isNilDocument(inp.doc)) =>
        /\ ret = NoErr
        /\ log = <<>>
        /\ out = inp.doc.elems

----------------------------------------------------------------------------
(* Query.Apply and Query.Distinct *)

\* The errors of errors.go
ErrNoDocuments == [src |-> "ErrNoDocuments", cb |-> 0, elem |-> 0]
ErrQueryNotSlicePointer == [src |-> "ErrQueryNotSlicePointer", cb |-> 0, elem |-> 0]
ErrQueryNotSliceType == [src |-> "ErrQueryNotSliceType", cb |-> 0, elem |-> 0]
ErrQueryResultTypeInconsistent == [src |-> "ErrQueryResultTypeInconsistent", cb |-> 0, elem |-> 0]
MarshalErr == [src |-> "marshal", cb |-> 0, elem |-> 0]

\* A method of the driver's collection is called
EvDriver(method) == [e |-> "driver", op |-> method, cb |-> 0, elem |-> 0]

\* Change.Update: the document given by its top-level keys
Updates ==
    { << <<"n">> >>, << <<"$", "s">> >>, << <<"n">>, <<"$", "i">> >> }

\* The Change argument of Apply
Changes ==
    [Update : Updates, Replace : BOOLEAN, Remove : BOOLEAN, Upsert : BOOLEAN,
     ReturnNew : BOOLEAN]

\* What the driver's findOneAnd... call followed by Decode comes to: a
\* decoded document, no matching document, another error of the driver, or
\* an error of decoding
ApplyOutcomes == {"ok", "noDocuments", "driverErr", "decodeErr"}

\* The error of q.collection.FindOneAnd...(...).Decode(result)
decodeErrOf(outcome) ==
    CASE outcome = "ok"          -> NoErr
      [] outcome = "noDocuments" -> ErrNoDocuments
      [] outcome = "driverErr"   -> DriverErr
      [] outcome = "decodeErr"   -> DecodeErr

\* Query.findOneAndDelete
findOneAndDelete(change, outcome) ==
    [events |-> <<EvDriver("FindOneAndDelete")>>, err |-> decodeErrOf(outcome)]

findOneAndReplaceAnyReturn(change, outcome) ==
    LET err == decodeErrOf(outcome)
    IN  [events |-> <<EvDriver("FindOneAndReplace")>>,
         err |-> IF change.Upsert /\ err = ErrNoDocuments THEN NoErr ELSE err]

\* Query.findOneAndReplace
findOneAndReplace(change, outcome) ==
    LET err == decodeErrOf(outcome)
    IN  [events |-> <<EvDriver("FindOneAndReplace")>>,
         err |-> IF change.Upsert /\ ~change.ReturnNew /\ err = ErrNoDocuments
                 THEN NoErr ELSE err]

\* Query.findOneAndUpdate
findOneAndUpdate(change, outcome) ==
    LET err == decodeErrOf(outcome)
    IN  [events |-> <<EvDriver("FindOneAndUpdate")>>,
         err |-> IF change.Upsert /\ ~change.ReturnNew /\ err = ErrNoDocuments
                 THEN NoErr ELSE err]

\* Query.Apply
Apply(change, outcome) ==
    IF change.Remove THEN findOneAndDelete(change, outcome)
    ELSE IF change.Replace THEN findOneAndReplace(change, outcome)
    ELSE findOneAndUpdate(change, outcome)

\* The result argument of Distinct by reflect.ValueOf(result).Kind() and,
\* for a pointer, the kind of what Elem() returns: Invalid for a nil pointer
Targets ==
    [kind : {"Invalid", "Slice", "Struct"}, elem : {"none"}] \cup
    [kind : {"Ptr"}, elem : {"Slice", "Interface", "Struct", "Int", "Invalid"}]

\* What follows the check of the target: the driver's Distinct errs, the
\* value does not marshal, it does not unmarshal into result, or all succeed
DistinctOutcomes == {"ok", "driverErr", "marshalErr", "unmarshalErr"}

DistinctSliceOnly(target, outcome) ==
    IF target.kind # "Ptr"
    THEN [events |-> <<>>, err |-> ErrQueryNotSlicePointer]
    ELSE IF target.elem # "Slice"
    THEN [events |-> <<>>, err |-> ErrQueryNotSliceType]
    ELSE [events |-> <<EvDriver("Distinct")>>,
          err |-> CASE outcome = "driverErr"    -> DriverErr
                    [] outcome = "marshalErr"   -> MarshalErr
                    [] outcome = "unmarshalErr" -> ErrQueryResultTypeInconsistent
                    [] outcome = "ok"           -> NoErr]

\* Query.Distinct
Distinct(target, outcome) ==
    IF target.kind # "Ptr"
    THEN [events |-> <<>>, err |-> ErrQueryNotSlicePointer]
    ELSE IF target.elem # "Interface" /\ target.elem # "Slice"
    THEN [events |-> <<>>, err |-> ErrQueryNotSliceType]
    ELSE [events |-> <<EvDriver("Distinct")>>,
          err |-> CASE outcome = "driverErr"    -> DriverErr
                    [] outcome = "marshalErr"   -> MarshalErr
                    [] outcome = "unmarshalErr" -> ErrQueryResultTypeInconsistent
                    [] outcome = "ok"           -> NoErr]

----------------------------------------------------------------------------
(* Specification of the executor: one call of Apply or of Distinct *)

InitExecutor ==
    /\ WhereIdle
    /\ QueryIdle
    /\ MwIdle

ApplyCall(change, outcome) ==
    LET r == Apply(change, outcome)
    IN  /\ inp' = [op |-> "Apply", change |-> change, outcome |-> outcome]
        /\ log' = r.events
        /\ ret' = r.err
        /\ UNCHANGED <<middlewareCallback, registered, out, whereVars, queryVars, procs>>

DistinctCall(target, outcome) ==
    LET r == Distinct(target, outcome)
    IN  /\ inp' = [op |-> "Distinct", target |-> target, outcome |-> outcome]
        /\ log' = r.events
        /\ ret' = r.err
        /\ UNCHANGED <<middlewareCallback, registered, out, whereVars, queryVars, procs>>

NextExecutor ==
    \/ /\ inp = NoInput
       /\ \E change \in Changes, outcome \in ApplyOutcomes : ApplyCall(change, outcome)
    \/ /\ inp = NoInput
       /\ \E target \in Targets, outcome \in DistinctOutcomes : DistinctCall(target, outcome)

SpecExecutor == InitExecutor /\ [][NextExecutor]_vars

----------------------------------------------------------------------------
(* Claims about Apply and Distinct, checked under SpecExecutor *)

\* the driver method m was called during the last operation
called(m) == \E p \in DOMAIN log : log[p] = EvDriver(m)

\* C16: when the driver reports no matching document, Apply returns nil
\* exactly when Remove is false, Upsert is true and ReturnNew is false, in
\* replace and in update mode alike, and the not-found error otherwise.
C16_NotFoundSuppressedOnlyForUpsertWithoutReturnNew ==
    (inp.op = "Apply" /\ inp.outcome = "noDocuments") =>
        LET c == inp.change
        IN  IF ~c.Remove /\ c.Upsert /\ ~c.ReturnNew
            THEN ret = NoErr
            ELSE ret = ErrNoDocuments

\* Apply has replaced with Upsert and without ReturnNew, the driver found no
\* document, and Apply returned nil.
C16_Witness ==
    /\ inp.op = "Apply"
    /\ inp.outcome = "noDocuments"
    /\ inp.change.Replace /\ ~inp.change.Remove
    /\ inp.change.Upsert /\ ~inp.change.ReturnNew
    /\ called("FindOneAndReplace")
    /\ ret = NoErr

\* update holds a top-level key that starts with '$'
hasOperatorKey(update) == \E i \in DOMAIN update : HasPrefix(update[i], <<"$">>)

\* C17: Apply with Change.Replace and a replacement that holds a key starting
\* with '$' returns an error and never calls the driver's FindOneAndReplace.
C17_OperatorKeyRejectedBeforeReplace ==
    (inp.op = "Apply" /\ inp.change.Replace /\ hasOperatorKey(inp.change.Update)) =>
        /\ ret # NoErr
        /\ ~called("FindOneAndReplace")

----------------------------------------------------------------------------
(* util.go: ParseSortField *)

RECURSIVE Split(_, _)
\* strings.Split(s, sep) for a separator of one character: the texts between
\* the occurrences of sep, the empty ones included
Split(s, sep) ==
    IF \A i \in DOMAIN s : s[i] # sep THEN <<s>>
    ELSE LET i == CHOOSE k \in DOMAIN s : s[k] = sep /\ \A m \in 1..(k - 1) : s[m] # sep
         IN  <<SubSeq(s, 1, i - 1)>> \o Split(SubSeq(s, i + 1, Len(s)), sep)

\* unicode.ToLower on the letters the fields are written with
lowerOf(c) ==
    CASE c = "A" -> "a"
      [] c = "C" -> "c"
      [] c = "D" -> "d"
      [] c = "E" -> "e"
      [] c = "S" -> "s"
      [] OTHER   -> c

ToLowerIdentity(s) == s

\* strings.ToLower
ToLower(s) == [i \in DOMAIN s |-> lowerOf(s[i])]

desc == <<"d", "e", "s", "c">>

ParseSortFieldTwoOrMore(field) ==
    IF Len(field) # 0
    THEN LET splittedField == Split(field, " ")
         IN  [key  |-> splittedField[1],
              sort |-> IF Len(splittedField) >= 2 /\ ToLower(splittedField[2]) = desc
                       THEN -1 ELSE 1]
    ELSE [key |-> field, sort |-> 1]

\* ParseSortField
ParseSortField(field) ==
    IF Len(field) # 0
    THEN LET splittedField == Split(field, " ")
         IN  [key  |-> splittedField[1],
              sort |-> IF Len(splittedField) = 2 /\ ToLower(splittedField[2]) = desc
                       THEN -1 ELSE 1]
    ELSE [key |-> field, sort |-> 1]

\* The texts the fields are built from
SortChunks ==
    { <<"a", "g", "e">>, <<" ">>, desc, <<"D", "E", "S", "C">>,
      <<"D", "e", "s", "c">>, <<"a", "s", "c">> }

RECURSIVE concat(_)
concat(ss) == IF ss = <<>> THEN <<>> ELSE Head(ss) \o concat(Tail(ss))

\* The fields handed to ParseSortField, the empty one included
SortFields == { concat(ss) : ss \in SeqsUpTo(SortChunks, MaxSortChunks) }

\* ParseSelectField
ParseSelectField(field) ==
    IF Len(field) # 0 /\ HasPrefix(field, <<"!">>)
    THEN [key |-> ReplaceAll(field, <<"!">>), visible |-> 0]
    ELSE [key |-> field, visible |-> 1]

\* The texts the fields of Select are built from
SelectChunks == { <<"a">>, <<"!">>, <<"g", "e">> }

\* The fields handed to ParseSelectField, the empty one included
SelectFields == { concat(ss) : ss \in SeqsUpTo(SelectChunks, MaxSortChunks) }

----------------------------------------------------------------------------
(* Specification of the parsers: one call of ParseSortField or of           *)
(* ParseSelectField                                                         *)

InitParse ==
    /\ WhereIdle
    /\ QueryIdle
    /\ MwIdle

ParseSortFieldCall(field) ==
    /\ inp' = [op |-> "ParseSortField", field |-> field]
    /\ out' = ParseSortField(field)
    /\ UNCHANGED <<middlewareCallback, registered, log, ret, whereVars, queryVars, procs>>

ParseSelectFieldCall(field) ==
    /\ inp' = [op |-> "ParseSelectField", field |-> field]
    /\ out' = ParseSelectField(field)
    /\ UNCHANGED <<middlewareCallback, registered, log, ret, whereVars, queryVars, procs>>

NextParse ==
    \/ /\ inp = NoInput
       /\ \E field \in SortFields : ParseSortFieldCall(field)
    \/ /\ inp = NoInput
       /\ \E field \in SelectFields : ParseSelectFieldCall(field)

SpecParse == InitParse /\ [][NextParse]_vars

----------------------------------------------------------------------------
(* Claims about ParseSortField, checked under SpecParse *)

\* the positions of the spaces of s
spacesOf(s) == { i \in DOMAIN s : s[i] = " " }

\* the text of s before its first space, s itself when it has none
beforeFirstSpace(s) ==
    IF spacesOf(s) = {} THEN s ELSE SubSeq(s, 1, least(spacesOf(s)) - 1)

\* the text of s after its first space
afterFirstSpace(s) == SubSeq(s, least(spacesOf(s)) + 1, Len(s))

\* t is "desc" in some mix of upper and lower case
isDescAnyCase(t) ==
    /\ Len(t) = 4
    /\ t[1] \in {"d", "D"} /\ t[2] \in {"e", "E"}
    /\ t[3] \in {"s", "S"} /\ t[4] \in {"c", "C"}

\* C19: for a non-empty field ParseSortField returns descending exactly when
\* the field is two tokens separated by its one space and the second is
\* "desc" in any case, and ascending otherwise; the key is the text before
\* the first space.  A token is what stands between two spaces, so that a
\* field with two spaces has three tokens.
C19_DescendingIffTwoTokensSecondDesc ==
    (inp.op = "ParseSortField" /\ inp.field # <<>>) =>
        /\ out.sort = IF /\ Cardinality(spacesOf(inp.field)) = 1
                         /\ isDescAnyCase(afterFirstSpace(inp.field))
                      THEN -1 ELSE 1
        /\ out.key = beforeFirstSpace(inp.field)

\* ParseSortField has been given "age Desc": descending, key "age".
C19_Witness ==
    /\ inp.op = "ParseSortField"
    /\ inp.field = <<"a", "g", "e", " ", "D", "e", "s", "c">>
    /\ out = [key |-> <<"a", "g", "e">>, sort |-> -1]

ageDESC == <<"a", "g", "e", " ", "D", "E", "S", "C">>

\* C20 as stated: ParseSortField("age DESC") returns ascending, and so does
\* every field whose second token is not the lowercase "desc".
C20_OnlyLowercaseDescIsDescending ==
    (/\ inp.op = "ParseSortField"
     /\ Cardinality(spacesOf(inp.field)) = 1
     /\ afterFirstSpace(inp.field) # desc)
        => out.sort = 1

\* C20 amended: ParseSortField("age DESC") returns key "age" and descending,
\* as does every field of two tokens whose second is "desc" in upper, lower
\* or mixed case.
C20_UppercaseDescIsDescending ==
    /\ (inp.op = "ParseSortField" /\ inp.field = ageDESC) =>
            out = [key |-> <<"a", "g", "e">>, sort |-> -1]
    /\ (/\ inp.op = "ParseSortField"
        /\ Cardinality(spacesOf(inp.field)) = 1
        /\ isDescAnyCase(afterFirstSpace(inp.field)))
            => out.sort = -1

\* ParseSortField has been given "age DESC" and returned descending.
C20_Witness ==
    /\ inp.op = "ParseSortField"
    /\ inp.field = ageDESC
    /\ out.sort = -1

----------------------------------------------------------------------------
(* Claims about ParseSelectField, checked under SpecParse *)

\* C21: for a field that begins with '!' ParseSelectField returns exclude
\* and the field without that one leading '!', every later character as it
\* was; for any other field it returns include and the field unchanged.
C21_OnlyLeadingMarkRemoved ==
    inp.op = "ParseSelectField" =>
        IF Len(inp.field) # 0 /\ Head(inp.field) = "!"
        THEN out = [key |-> Tail(inp.field), visible |-> 0]
        ELSE out = [key |-> inp.field, visible |-> 1]

----------------------------------------------------------------------------
(* Query.Sort, Query.Select and the setters *)

\* panic("Sort: empty field name") and panic("Select: empty field name")
SortPanic == [src |-> "panic: Sort: empty field name", cb |-> 0, elem |-> 0]
SelectPanic == [src |-> "panic: Select: empty field name", cb |-> 0, elem |-> 0]

\* bson.E{Key: key, Value: value}
E(key, value) == [key |-> key, value |-> value]

RECURSIVE SortPrepends(_, _)
SortPrepends(qq, fields) ==
    IF fields = <<>> THEN [q |-> qq, err |-> NoErr]
    ELSE LET p == ParseSortField(Head(fields))
         IN  IF p.key = <<>> THEN [q |-> qq, err |-> SortPanic]
             ELSE SortPrepends(
                    [qq EXCEPT !.sort = [nil |-> FALSE, d |-> <<E(p.key, p.sort)>> \o @.d]],
                    Tail(fields))

RECURSIVE Sort(_, _)
\* Query.Sort: the fields in argument order; the panic leaves the query with
\* the entries appended before it
Sort(qq, fields) ==
    IF fields = <<>> THEN [q |-> qq, err |-> NoErr]
    ELSE LET p == ParseSortField(Head(fields))
         IN  IF p.key = <<>> THEN [q |-> qq, err |-> SortPanic]
             ELSE Sort([qq EXCEPT !.sort = goAppend(@, <<E(p.key, p.sort)>>)], Tail(fields))

RECURSIVE SelectSkipsEmpty(_, _)
SelectSkipsEmpty(qq, fields) ==
    IF fields = <<>> THEN [q |-> qq, err |-> NoErr]
    ELSE LET p == ParseSelectField(Head(fields))
         IN  IF p.key = <<>> THEN SelectSkipsEmpty(qq, Tail(fields))
             ELSE SelectSkipsEmpty(
                    [qq EXCEPT !.project = goAppend(@, <<E(p.key, p.visible)>>)], Tail(fields))

RECURSIVE Select(_, _)
\* Query.Select
Select(qq, fields) ==
    IF fields = <<>> THEN [q |-> qq, err |-> NoErr]
    ELSE LET p == ParseSelectField(Head(fields))
         IN  IF p.key = <<>> THEN [q |-> qq, err |-> SelectPanic]
             ELSE Select([qq EXCEPT !.project = goAppend(@, <<E(p.key, p.visible)>>)],
                         Tail(fields))

\* Query.Skip, Query.Limit, Query.BatchSize and Query.Hint
Skip(qq, n)      == [qq EXCEPT !.skip = <<n>>]
Limit(qq, n)     == [qq EXCEPT !.limit = <<n>>]
BatchSize(qq, n) == [qq EXCEPT !.batchSize = <<n>>]
Hint(qq, hint)   == [qq EXCEPT !.hint = <<hint>>]

age == <<"a", "g", "e">>
nDesc == <<"n", " ">> \o desc

\* The argument lists handed to Sort
SortArgs ==
    { <<>>, <<age>>, <<age, nDesc>>, <<nDesc, age>>, << <<" ">> \o desc >>, <<age, <<>> >> }

\* The argument lists handed to Select
SelectArgs ==
    { <<>>, <<age>>, << <<"!", "n">>, age >>, << <<"!">> >>, <<age, <<>> >> }

\* The condition maps and the numbers handed to the other methods
BuilderMaps == { <<[key |-> <<"a">>, value |-> 1]>> }
BuilderNumbers == {5}

----------------------------------------------------------------------------
(* Specification of the whole builder: the methods are called on one query  *)
(* in any order, until one of them panics                                   *)

InitBuilder ==
    /\ WhereIdle
    /\ QueryIdle
    /\ MwIdle

SortCall(fields) ==
    LET r == Sort(q, fields)
    IN  /\ q' = r.q
        /\ ret' = r.err
        /\ hist' = Append(hist, [op |-> "Sort", arg |-> fields, pre |-> q])
        /\ UNCHANGED <<middlewareCallback, registered, inp, log, out, whereVars, procs>>

SelectCall(fields) ==
    LET r == Select(q, fields)
    IN  /\ q' = r.q
        /\ ret' = r.err
        /\ hist' = Append(hist, [op |-> "Select", arg |-> fields, pre |-> q])
        /\ UNCHANGED <<middlewareCallback, registered, inp, log, out, whereVars, procs>>

SkipCall(n) ==
    /\ q' = Skip(q, n)
    /\ hist' = Append(hist, [op |-> "Skip", arg |-> n, pre |-> q])
    /\ UNCHANGED <<whereVars, mwVars>>

LimitCall(n) ==
    /\ q' = Limit(q, n)
    /\ hist' = Append(hist, [op |-> "Limit", arg |-> n, pre |-> q])
    /\ UNCHANGED <<whereVars, mwVars>>

BatchSizeCall(n) ==
    /\ q' = BatchSize(q, n)
    /\ hist' = Append(hist, [op |-> "BatchSize", arg |-> n, pre |-> q])
    /\ UNCHANGED <<whereVars, mwVars>>

HintCall(hint) ==
    /\ q' = Hint(q, hint)
    /\ hist' = Append(hist, [op |-> "Hint", arg |-> hint, pre |-> q])
    /\ UNCHANGED <<whereVars, mwVars>>

\* a further call can be made
canCall == ret = NoErr /\ Len(hist) < MaxCalls

NextBuilder ==
    \/ canCall /\ \E fields \in SortArgs : SortCall(fields)
    \/ canCall /\ \E fields \in SelectArgs : SelectCall(fields)
    \/ canCall /\ \E n \in BuilderNumbers : SkipCall(n)
    \/ canCall /\ \E n \in BuilderNumbers : LimitCall(n)
    \/ canCall /\ \E n \in BuilderNumbers : BatchSizeCall(n)
    \/ canCall /\ \E n \in BuilderNumbers : HintCall(n)
    \/ canCall /\ \E entries \in BuilderMaps : WhereCall(entries)
    \/ canCall /\ \E entries \in BuilderMaps : AndWhereCall(entries)
    \/ canCall /\ \E entries \in BuilderMaps : OrWhereCall(entries)

SpecBuilder == InitBuilder /\ [][NextBuilder]_vars

----------------------------------------------------------------------------
(* Claims about Sort and Select, checked under SpecBuilder *)

\* the key ParseSortField / ParseSelectField returns for a field of method op
parsedKey(op, field) ==
    IF op = "Sort" THEN ParseSortField(field).key ELSE ParseSelectField(field).key

\* the positions of the fields whose parsed key is empty
emptyKeyed(op, fields) == { i \in DOMAIN fields : parsedKey(op, fields[i]) = <<>> }

\* the specification method op appends to
specOf(op, qq) == IF op = "Sort" THEN qq.sort.d ELSE qq.project.d

\* C22: Sort and Select panic exactly when one of their fields has an empty
\* parsed key; the panic comes at the first such field, of which no entry is
\* added: the entries added are those of the fields before it, and those of
\* all fields when there is no panic.
C22_EmptyKeyPanics ==
    (Len(hist) > 0 /\ lastCall.op \in {"Sort", "Select"}) =>
        LET bad   == emptyKeyed(lastCall.op, lastCall.arg)
            added == Len(specOf(lastCall.op, q)) - Len(specOf(lastCall.op, lastCall.pre))
            after == specOf(lastCall.op, q)
        IN  /\ (ret # NoErr) <=> (bad # {})
            /\ ret # NoErr => ret = IF lastCall.op = "Sort" THEN SortPanic ELSE SelectPanic
            /\ added = IF bad = {} THEN Len(lastCall.arg) ELSE least(bad) - 1
            /\ \A i \in DOMAIN after : after[i].key # <<>>

\* Sort has been called with " desc", whose parsed key is empty: it
\* panicked and the sort specification is as before.
C22_Witness ==
    /\ Len(hist) = 2
    /\ hist[1].op = "Sort" /\ hist[1].arg = <<age>>
    /\ hist[2].op = "Sort" /\ hist[2].arg = << <<" ">> \o desc >>
    /\ ret = SortPanic
    /\ q.sort = hist[2].pre.sort
    /\ Len(q.sort.d) = 1

\* the (key, direction) pairs of the fields of one Sort call
pairsOf(fields) ==
    [i \in DOMAIN fields |->
        E(ParseSortField(fields[i]).key, ParseSortField(fields[i]).sort)]

RECURSIVE sortedBy(_)
\* the pairs of the Sort calls of h, in call order
sortedBy(h) ==
    IF h = <<>> THEN <<>>
    ELSE (IF h[1].op = "Sort" THEN pairsOf(h[1].arg) ELSE <<>>) \o sortedBy(Tail(h))

\* C23: as long as no call has panicked, the sort specification is the
\* concatenation of the parsed (key, direction) pairs of the Sort calls in
\* call order and, within a call, in argument order; a Sort call keeps the
\* earlier entries in front as they were, and no other method changes the
\* sort specification.
C23_SortKeepsInsertionOrder ==
    /\ ret = NoErr => q.sort.d = sortedBy(hist)
    /\ (Len(hist) > 0 /\ lastCall.op = "Sort") =>
            isPrefixOf(lastCall.pre.sort.d, q.sort.d)
    /\ (Len(hist) > 0 /\ lastCall.op # "Sort") => q.sort = lastCall.pre.sort

\* Sort("age", "n desc"), Where and Sort("n desc", "age") have been called:
\* the four entries are in that order.
C23_Witness ==
    /\ Len(hist) = 3
    /\ hist[1].op = "Sort" /\ hist[1].arg = <<age, nDesc>>
    /\ hist[2].op = "Where"
    /\ hist[3].op = "Sort" /\ hist[3].arg = <<nDesc, age>>
    /\ q.sort.d = <<E(age, 1), E(<<"n">>, -1), E(<<"n">>, -1), E(age, 1)>>

----------------------------------------------------------------------------
(* Claims about the clock of field defaulting, checked under SpecField *)

\* the positions of the documents the handler of DefaultFieldHook works on
defaulted ==
    { j \in reached : inp.doc.elems[j].cap = "default" /\ ~inp.doc.elems[j].nil }

\* C24: after before-insert on a document implementing DefaultFieldHook the
\* update time is a reading of the clock truncated to the millisecond: its
\* part below the millisecond is zero.
C24_UpdateTimeTruncatedToMillisecond ==
    fieldDoIn({BeforeInsert}) =>
        \A j \in defaulted :
            /\ out[j].updateAt % Millisecond = 0
            /\ \E k \in 0..(2 * Len(inp.doc.elems)) :
                    out[j].updateAt = Now(timeNow(inp.clk, k))

\* C25: after before-insert or before-upsert on a document whose creation
\* time was zero, creation time and update time hold the same timestamp,
\* whatever the clock does during the call.
C25_CreateAndUpdateShareOneReading ==
    fieldDoIn({BeforeInsert, BeforeUpsert}) =>
        \A j \in defaulted :
            inp.doc.elems[j].createAt = 0 => out[j].createAt = out[j].updateAt

----------------------------------------------------------------------------
(* Claims about the order of callbacks and elements, checked under          *)
(* SpecPipeline                                                             *)

\* the callback at position i works element by element in phase opType
dispatches(i) == inp.cbs[i] # fieldDo \/ inp.opType \in fieldHandler

\* C27: on a sequence of documents middleware.Do is callback-major: a
\* callback is handed the whole sequence and has returned for all its
\* elements before the next callback is invoked or sees any element; so when
\* callback k fails on element j, every callback before k has been applied
\* to all elements of the sequence, those after j included.
C27_CallbackMajorOnSequences ==
    (inp.op = "Do" /\ isSequence(inp.doc)) =>
        /\ \A p1, p2 \in DOMAIN log :
            (p1 < p2 /\ isElem(log[p1])) =>
                /\ isCall(log[p2]) => log[p1].cb < log[p2].cb
                /\ isElem(log[p2]) =>
                    \/ log[p1].cb < log[p2].cb
                    \/ log[p1].cb = log[p2].cb /\ log[p1].elem < log[p2].elem
        /\ ret # NoErr =>
            \A i \in 1..(ret.cb - 1) :
                dispatches(i) => elemsOf(log, i) = upTo(inp.doc.n)

\* The third callback failed on the first of three documents before an
\* update: the two callbacks before it had worked on all three.
C27_Witness ==
    /\ inp.op = "Do"
    /\ inp.doc = [kind |-> "ptrslice", n |-> 3]
    /\ inp.opType = BeforeUpdate
    /\ ret = CallbackErr(3, 1)
    /\ elemsOf(log, 1) = <<1, 2, 3>>
    /\ elemsOf(log, 2) = <<1, 2, 3>>
    /\ elemsOf(log, 3) = <<1>>

----------------------------------------------------------------------------
(* Concurrent calls of middleware.Do: each goroutine runs the loop of Do on *)
(* its own document, one callback per step; Register is called only while  *)
(* no call of Do is under way                                               *)

\* What the callbacks do with the document of one call: the position of the
\* first callback that errs on it, 0 for none
FirstErrs(cbs) == 0..Len(cbs)

\* Do is entered: the range expression middlewareCallback is evaluated once
doEnter(cbs, f) ==
    [pc |-> "loop", cbs |-> cbs, i |-> 1, beh |-> f, log |-> <<>>, ret |-> NoErr]

doStepSharedErr(ps, p) ==
    LET pr == ps[p]
    IN  IF \E o \in DOMAIN ps : ps[o].ret # NoErr
        THEN [pr EXCEPT !.pc = "done",
                        !.ret = ps[CHOOSE o \in DOMAIN ps : ps[o].ret # NoErr].ret]
        ELSE IF pr.i > Len(pr.cbs) THEN [pr EXCEPT !.pc = "done"]
        ELSE IF pr.beh = pr.i
             THEN [pr EXCEPT !.log = Append(@, pr.i), !.pc = "done",
                             !.ret = CallbackErr(pr.i, 0)]
             ELSE [pr EXCEPT !.log = Append(@, pr.i), !.i = @ + 1]

\* One iteration of the loop of Do in goroutine p: the next callback is
\* called on the document of p and its error returned, or the loop is left
\* and nil returned; only the state of p is read
doStep(ps, p) ==
    LET pr == ps[p]
    IN  IF pr.i > Len(pr.cbs) THEN [pr EXCEPT !.pc = "done"]
        ELSE IF pr.beh = pr.i
             THEN [pr EXCEPT !.log = Append(@, pr.i), !.pc = "done",
                             !.ret = CallbackErr(pr.i, 0)]
             ELSE [pr EXCEPT !.log = Append(@, pr.i), !.i = @ + 1]

InitConcurrent ==
    /\ WhereIdle
    /\ QueryIdle
    /\ MwIdle

DoStart(p, f) ==
    /\ procs[p].pc = "idle"
    /\ procs' = [procs EXCEPT ![p] = doEnter(middlewareCallback, f)]
    /\ UNCHANGED <<middlewareCallback, registered, inp, log, ret, out, whereVars, queryVars>>

DoStep(p) ==
    /\ procs[p].pc = "loop"
    /\ procs' = [procs EXCEPT ![p] = doStep(procs, p)]
    /\ UNCHANGED <<middlewareCallback, registered, inp, log, ret, out, whereVars, queryVars>>

NextConcurrent ==
    \/ /\ \A p \in 1..MaxProcs : procs[p].pc # "loop"
       /\ \E cb \in UserCallbacks : Register(cb)
    \/ \E p \in 1..MaxProcs : \E f \in FirstErrs(middlewareCallback) : DoStart(p, f)
    \/ \E p \in 1..MaxProcs : DoStep(p)

SpecConcurrent == InitConcurrent /\ [][NextConcurrent]_vars

----------------------------------------------------------------------------
(* Claims about concurrent calls of Do, checked under SpecConcurrent *)

\* C26: with no Register call running during a call of Do, every one of the
\* concurrent calls invokes the callbacks registered when it started in
\* registration order, each once, and stops at its own first error only:
\* what another call does or returns skips, reorders or repeats nothing.
C26_ConcurrentDoIndependent ==
    \A p \in 1..MaxProcs :
        LET pr == procs[p]
        IN  pr.pc # "idle" =>
                /\ isPrefixOf(pr.cbs, middlewareCallback)
                /\ isPrefixOf(Builtins, pr.cbs)
                /\ pr.pc = "loop" =>
                        /\ pr.log = upTo(pr.i - 1)
                        /\ pr.ret = NoErr
                        /\ pr.beh = 0 \/ pr.i <= pr.beh
                /\ pr.pc = "done" =>
                        IF pr.beh = 0
                        THEN pr.log = upTo(Len(pr.cbs)) /\ pr.ret = NoErr
                        ELSE pr.log = upTo(pr.beh) /\ pr.ret = CallbackErr(pr.beh, 0)

\* Two calls have run side by side over four callbacks: the first returned
\* the error of the second callback, the other one invoked all four and
\* returned nil.
C26_Witness ==
    /\ Len(middlewareCallback) = 4
    /\ procs[1].pc = "done" /\ procs[1].ret = CallbackErr(2, 0) /\ procs[1].log = <<1, 2>>
    /\ procs[2].pc = "done" /\ procs[2].ret = NoErr /\ procs[2].log = <<1, 2, 3, 4>>
    /\ Len(procs[2].cbs) = 4

====
